---- MODULE Spec2Model ----
(***************************************************************************)
(* llama_deploy: the credential store (tokens.py) and the deployment       *)
(* orchestrator (orchestrator.py) as state machines.                        *)
(*                                                                         *)
(* Conventions                                                             *)
(*   - Python None for a string field is the sentinel None; for a          *)
(*     timestamp it is NoTime.                                              *)
(*   - secrets.token_hex / secrets.token_urlsafe draw a value that no      *)
(*     record of the store carries yet; the n-th record of a store gets    *)
(*     the identifier n and, when generated, the secret GenSecret(n).      *)
(*     SpecDrawn drops this for the 48-bit identifiers: there token_hex    *)
(*     returns any value of TokenHex.                                      *)
(*   - a secrets directory is used under one auth mode (the CLI detects    *)
(*     the mode from the files that exist); auth_mode is fixed by Init.    *)
(*   - every write to disk may raise (OSError, interrupt): a mutation      *)
(*     draws the write that fails, if any, from Faults.                    *)
(***************************************************************************)
EXTENDS Integers, Sequences, FiniteSets, TLC

VARIABLES
    auth_mode,      \* TokenStore._auth_mode of every store opened on the directory
    tokens_json,    \* <secrets>/tokens.json      [exists, tokens]
    api_keys,       \* <secrets>/api_keys         [exists, lines]
    token_hashes,   \* <secrets>/token_hashes.json [exists, hashes]
    clock,          \* the next value of datetime.now()
    last            \* the last TokenStore call made and what it returned or raised

storeVars == <<auth_mode, tokens_json, api_keys, token_hashes, clock, last>>

-----------------------------------------------------------------------------
(* Bounds *)

\* records a CLI session creates in one store
MaxTokens == 2

\* records the token commands create before a deployment
MaxSetupTokens == 1

\* deployments run on one secrets directory
MaxDeploys == 1

\* length of the lists handed to run_steps directly
MaxSteps == 3

\* consecutive direct calls of _ensure_first_token
MaxBootstraps == 3

\* ports of the range pick_free_bind_port scans
PortSpan == 3

\* largest models_max of a baseline or of the memory heuristic
MaxModels == 3

\* largest detected memory, in GiB
MaxMemGib == 3

\* largest timeout_s of wait_health, in seconds
MaxTimeout == 3

-----------------------------------------------------------------------------
(* Values *)

None == "<None>"

NoTime == 0

PLAINTEXT == "plaintext"

HASHED == "hashed"

AuthModes == {PLAINTEXT, HASHED}

\* secrets a caller supplies explicitly
ExplicitValues == {"sk-a"}

\* what a caller may pass as create_token's value argument
ValueArgs == ExplicitValues \cup {None, "", " "}

\* "sk-" + secrets.token_urlsafe(48), for the n-th record of the store
GenSecret(n) == "sk-gen" \o ToString(n)

\* "tk_" + secrets.token_hex(6), for the n-th record of the store
GenTokenId(n) == n

\* str.strip() on the values of the model
Strip(s) == IF s \in {"", " "} THEN "" ELSE s

\* Python truthiness of an Optional[str]
Truthy(s) == s # None /\ s # ""

\* hashlib.sha256(raw.encode()).hexdigest(): injective, never a plaintext
sha256(raw) == "sha256(" \o raw \o ")"

\* the write of a mutation that raises
Faults == {"none", "save", "sync"}

-----------------------------------------------------------------------------
(* TokenRecord *)

TokenRecord(id, name, created_at, value, hash) ==
    [id |-> id, name |-> name, created_at |-> created_at,
     revoked |-> FALSE, revoked_at |-> NoTime,
     value |-> value, hash |-> hash]

_to_dict(t) ==
    [id |-> t.id, name |-> t.name, created_at |-> t.created_at,
     revoked |-> t.revoked, revoked_at |-> t.revoked_at,
     value |-> t.value, hash |-> t.hash]

_from_dict(d) ==
    [id |-> d.id, name |-> d.name, created_at |-> d.created_at,
     revoked |-> d.revoked, revoked_at |-> d.revoked_at,
     value |-> d.value, hash |-> d.hash]

-----------------------------------------------------------------------------
(* TokenStore: the pure parts *)

_load(file) ==
    IF ~file.exists THEN <<>>
    ELSE [i \in 1..Len(file.tokens) |-> _from_dict(file.tokens[i])]

_save(tokens) ==
    [exists |-> TRUE, tokens |-> [i \in 1..Len(tokens) |-> _to_dict(tokens[i])]]

IsActive(t) == ~t.revoked

list_tokens(file) == _load(file)

\* mutant: active_tokens does not filter
active_tokensUnfiltered(file) == _load(file)

active_tokens(file) == SelectSeq(_load(file), IsActive)

\* mutant: the keyfile filter forgets the revoked flag
KeyfileEntryAnyRecord(t) == Truthy(t.value)

KeyfileEntry(t) == ~t.revoked /\ Truthy(t.value)

\* mutant: the hash-list filter forgets the revoked flag
HashfileEntryAnyRecord(t) == Truthy(t.hash)

HashfileEntry(t) == ~t.revoked /\ Truthy(t.hash)

_sync_keyfile(tokens) ==
    LET active == SelectSeq(tokens, KeyfileEntry)
    IN  [exists |-> TRUE, lines |-> [i \in 1..Len(active) |-> active[i].value]]

\* mutant: token_hashes.json is left as it was
_sync_hashfileStale(tokens) == token_hashes

_sync_hashfile(tokens) ==
    LET active_hashes == SelectSeq(tokens, HashfileEntry)
    IN  [exists |-> TRUE,
         hashes |-> [i \in 1..Len(active_hashes) |-> active_hashes[i].hash]]

\* mutant: hashed mode persists the record it displays
StoredRecordKeepsValue(mode, id, name, now, raw) ==
    TokenRecord(id, name, now, raw, IF mode = HASHED THEN sha256(raw) ELSE None)

\* the record create_token persists
StoredRecord(mode, id, name, now, raw) ==
    IF mode = HASHED
    THEN TokenRecord(id, name, now, None, sha256(raw))
    ELSE TokenRecord(id, name, now, raw, None)

\* mutant: create_token returns the record it persisted
DisplayRecordIsStored(mode, id, name, now, raw) ==
    StoredRecord(mode, id, name, now, raw)

\* the record create_token returns
DisplayRecord(mode, id, name, now, raw) ==
    IF mode = HASHED
    THEN TokenRecord(id, name, now, raw, sha256(raw))
    ELSE StoredRecord(mode, id, name, now, raw)

\* mutant: the supplied value is ignored
RawValueGenerated(value, n) == GenSecret(n)

\* value or ("sk-" + secrets.token_urlsafe(48))
RawValue(value, n) == IF Truthy(value) THEN value ELSE GenSecret(n)

\* mutant: the lookup does not compare identifiers
FindTokenAny(tokens, id) == IF Len(tokens) > 0 THEN 1 ELSE 0

\* the position of the first record with this id, 0 when there is none
FindToken(tokens, id) ==
    IF \E i \in 1..Len(tokens) : tokens[i].id = id
    THEN CHOOSE i \in 1..Len(tokens) :
            /\ tokens[i].id = id
            /\ \A j \in 1..(i - 1) : tokens[j].id # id
    ELSE 0

\* mutant: revoke_token does not look at the revoked flag
AlreadyRevokedNever(t) == FALSE

\* revoke_token's guard on the record it found
AlreadyRevoked(t) == t.revoked

\* mutant: revoke_token sets the flag without the timestamp
MarkRevokedNoStamp(tokens, i, now) == [tokens EXCEPT ![i].revoked = TRUE]

MarkRevoked(tokens, i, now) ==
    [tokens EXCEPT ![i].revoked = TRUE, ![i].revoked_at = now]

-----------------------------------------------------------------------------
(* TokenStore: the calls *)

Call(op, id, value, outcome, ret) ==
    [op |-> op, id |-> id, value |-> value, outcome |-> outcome, ret |-> ret]

NoCall == Call("none", 0, None, "ok", <<>>)

\* _save(tokens); _sync(tokens) with the write named by fault raising
WriteFiles(tokens, fault) ==
    /\ tokens_json' = IF fault = "save" THEN tokens_json ELSE _save(tokens)
    /\ api_keys' =
          IF fault = "none" /\ auth_mode # HASHED
          THEN _sync_keyfile(tokens) ELSE api_keys
    /\ token_hashes' =
          IF fault = "none" /\ auth_mode = HASHED
          THEN _sync_hashfile(tokens) ELSE token_hashes

Outcome(fault) == IF fault = "none" THEN "ok" ELSE "OSError"

\* create_token with token_id the identifier secrets.token_hex(6) gave
create_token_as(token_id, name, value, fault) ==
    LET n      == Len(_load(tokens_json)) + 1
        raw    == RawValue(value, n)
        stored == StoredRecord(auth_mode, token_id, name, clock, raw)
        shown  == DisplayRecord(auth_mode, token_id, name, clock, raw)
        tokens == Append(_load(tokens_json), stored)
    IN  IF Strip(raw) = ""
        THEN /\ last' = Call("create", 0, value, "ValueError", <<>>)
             /\ UNCHANGED <<tokens_json, api_keys, token_hashes, clock>>
        ELSE /\ WriteFiles(tokens, fault)
             /\ clock' = IF fault = "save" THEN clock ELSE clock + 1
             /\ last' = Call("create", token_id, value, Outcome(fault),
                             IF fault = "none" THEN <<shown>> ELSE <<>>)

\* create_token when the identifier drawn is one no record carries
create_token(name, value, fault) ==
    create_token_as(GenTokenId(Len(_load(tokens_json)) + 1), name, value, fault)

revoke_token(id, fault) ==
    LET tokens == _load(tokens_json)
        i      == FindToken(tokens, id)
    IN  IF i = 0
        THEN /\ last' = Call("revoke", id, None, "KeyError", <<>>)
             /\ UNCHANGED <<tokens_json, api_keys, token_hashes, clock>>
        ELSE IF AlreadyRevoked(tokens[i])
        THEN /\ last' = Call("revoke", id, None, "ValueError", <<>>)
             /\ UNCHANGED <<tokens_json, api_keys, token_hashes, clock>>
        ELSE LET after == MarkRevoked(tokens, i, clock)
             IN  /\ WriteFiles(after, fault)
                 /\ clock' = IF fault = "save" THEN clock ELSE clock + 1
                 /\ last' = Call("revoke", id, None, Outcome(fault),
                                 IF fault = "none" THEN <<after[i]>> ELSE <<>>)

\* mutant: show_token returns whatever record it finds
UnrecoverableNever(mode, t) == FALSE

\* show_token's guard on the record it found
Unrecoverable(mode, t) == mode = HASHED /\ t.value = None

show_token(id) ==
    LET tokens == _load(tokens_json)
        i      == FindToken(tokens, id)
    IN  /\ last' =
              IF i = 0 THEN Call("show", id, None, "KeyError", <<>>)
              ELSE IF Unrecoverable(auth_mode, tokens[i])
              THEN Call("show", id, None, "ValueError", <<>>)
              ELSE Call("show", id, None, "ok", <<tokens[i]>>)
        /\ UNCHANGED <<tokens_json, api_keys, token_hashes, clock>>

-----------------------------------------------------------------------------
(* orchestrator.py: Step, TokenRuntime *)

NoId == 0

\* None: the default of Step.result and what a step function without a value returns
NoResult == [kind |-> "None", value |-> None, temporary_id |-> NoId]

Step(label, fn, skip_if) ==
    [label |-> label, fn |-> fn, skip_if |-> skip_if, result |-> NoResult]

TokenRuntime(value, temporary_id) ==
    [kind |-> "TokenRuntime", value |-> value, temporary_id |-> temporary_id]

\* what resolve_model and spec.with_resolved return
ResolvedSpec(role, origin) ==
    [kind |-> "ModelSpec", value |-> role \o ":" \o origin, temporary_id |-> NoId]

\* what a step function of the run_steps harness returns
HarnessValue(i, e) ==
    [kind |-> "value",
     value |-> "r" \o ToString(i) \o (IF e THEN "+" ELSE "-"),
     temporary_id |-> NoId]

\* how a step function, or the code between the steps, fails
Raises == {"Exception", "SystemExit", "KeyboardInterrupt"}

-----------------------------------------------------------------------------
(* health.py: the requests of the smoke tests *)

\* spec.effective_alias: the name the server advertises for the model
effective_alias(spec) == "alias of " \o spec.value

\* a curl request handed to sh: the route, the bearer token, the "model" of the body
Request(route, token, model) == [route |-> route, token |-> token, model |-> model]

\* the three sh calls of curl_smoke_tests, in order
curl_smoke_tests(base_url, token, llm, emb) ==
    << Request(base_url \o "/v1/models", token, None),
       Request(base_url \o "/v1/embeddings", token, effective_alias(emb)),
       Request(base_url \o "/v1/chat/completions", token, effective_alias(llm)) >>

\* cfg.network.base_url
loopback_url == "http://loopback"

-----------------------------------------------------------------------------
(* run_deploy: the Config and the assembly of the steps *)

Config(configure_ufw, skip_download, use_tls, publish, api_token, gguf) ==
    [configure_ufw |-> configure_ufw, skip_download |-> skip_download,
     use_tls |-> use_tls, publish |-> publish,
     api_token_name |-> "default", api_token |-> api_token, gguf |-> gguf]

ModelRoles == {"llm", "emb"}

\* the configurations a deployment is started with; gguf is the set of model roles
\* with a matching .gguf file in models_dir, read only under skip_download
Configs ==
    {Config(u, FALSE, t, p, a, {}) :
        u \in BOOLEAN, t \in BOOLEAN, p \in BOOLEAN, a \in {None, "sk-a"}}
    \cup
    {Config(u, TRUE, t, p, a, g) :
        u \in BOOLEAN, t \in BOOLEAN, p \in BOOLEAN, a \in {None, "sk-a"},
        g \in SUBSET ModelRoles}

NoConfig == Config(FALSE, FALSE, FALSE, FALSE, None, {})

system_steps ==
    << Step("Install base packages", "ensure_base_packages", "none"),
       Step("Enable unattended upgrades", "ensure_unattended_upgrades", "none"),
       Step("Install / enable Docker", "ensure_docker", "none"),
       Step("Ensure swap", "ensure_swap", "none"),
       Step("Firewall (UFW) hardening", "ensure_firewall", "not configure_ufw"),
       Step("Create API token", "_ensure_first_token", "none") >>

model_steps ==
    << Step("Resolve + download LLM GGUF", "resolve_model llm", "skip_download"),
       Step("Resolve + download embedding GGUF", "resolve_model emb", "skip_download") >>

\* mutant: the smoke tests are listed before the liveness wait
validation_stepsSmokeFirst(c, mode) ==
    IF c.publish \/ mode = HASHED
    THEN << Step("Smoke tests (OpenAI-compatible routes)", "curl_smoke_tests", "none"),
            Step("Wait for /health", "wait_health", "none") >>
    ELSE << Step("Internal network smoke test", "_internal_test", "none"),
            Step("Sanity checks", "sanity_checks", "none") >>

validation_steps(c, mode) ==
    IF c.publish \/ mode = HASHED
    THEN << Step("Wait for /health", "wait_health", "none"),
            Step("Smoke tests (OpenAI-compatible routes)", "curl_smoke_tests", "none") >>
    ELSE << Step("Internal network smoke test", "_internal_test", "none"),
            Step("Sanity checks", "sanity_checks", "none") >>

service_steps(c, mode) ==
    << Step("Write models.ini + docker-compose.yml", "_write_config", "none"),
       Step("Pull Docker image", "docker_pull", "none"),
       Step("Start Docker Compose", "docker_compose_up", "none"),
       Step("NGINX local auth proxy (hashed mode)", "_setup_local_proxy",
            "not hashed or use_tls"),
       Step("NGINX + Let's Encrypt TLS", "_setup_tls", "not use_tls") >>
    \o validation_steps(c, mode)
    \o << Step("Sanity checks (ports + logs)", "sanity_checks", "none") >>

all_steps(c, mode) == system_steps \o model_steps \o service_steps(c, mode)

\* the labels of the steps whose result a step function reads when it is called
Reads(fn) ==
    CASE fn = "_write_config" ->
             {model_steps[1].label, model_steps[2].label}
      [] fn = "curl_smoke_tests" ->
             {system_steps[6].label, model_steps[1].label, model_steps[2].label}
      [] fn = "_internal_test" ->
             {system_steps[6].label}
      [] OTHER -> {}

\* the position in the assembled list of the step with this label
StepAt(list, label) == CHOOSE i \in 1..Len(list) : list[i].label = label

-----------------------------------------------------------------------------
(* State of the orchestrator *)

VARIABLES
    pc,         \* "idle", "run_steps", "finally" or "returned"
    cfg,        \* the Config run_deploy was called with
    steps,      \* the Step objects: all_steps, or the list handed to run_steps
    call,       \* the run_steps call in progress [phase, first, last, pos, n0]
    bar,        \* the progress bar [total, n]
    env,        \* state outside the runner that step functions change and skip_if read
    outcome,    \* "none" while running, then "ok" or the exception that propagates
    first_run,  \* run_deploy's first_run
    summary,    \* what _print_summary displayed [printed, token]
    cleanup,    \* the revoke_token call of the finally block [invoked, id, outcome]
    deploys,    \* deployments started so far
    status,     \* per step: "pending", "skipped", "done" or "failed"
    evals,      \* per step: evaluations of its skip_if
    ran,        \* per step: calls of its fn
    returned,   \* per step: the value its fn returned
    writes      \* per step: who assigned its result, in the order of the assignments

orchVars ==
    <<pc, cfg, steps, call, bar, env, outcome, first_run, summary, cleanup,
      deploys, status, evals, ran, returned, writes>>

VARIABLES
    run,        \* the function being executed [fn, outcome, cmds, rcs]
    shell,      \* the sh call and its subprocess [at, cmd, check, group, rc, outcome]
    timer,      \* wait_health's loop [at, now, deadline, begun, answer]
    assembly    \* the last helper call of the configuration assembly [op, args, out]

sysVars == <<run, shell, timer, assembly>>

vars == <<storeVars, orchVars, sysVars>>

NoRun == [fn |-> "none", outcome |-> "none", cmds |-> <<>>, rcs |-> <<>>]

NoShell ==
    [at |-> "none", cmd |-> "none", check |-> TRUE, group |-> "none", rc |-> 0,
     outcome |-> "none"]

NoTimer == [at |-> "none", now |-> 0, deadline |-> 0, begun |-> 0, answer |-> "none"]

NoAssembly == [op |-> "none", args |-> [none |-> TRUE], out |-> [none |-> TRUE]]

\* no health.py function and no assembly helper is executing
SysIdle ==
    /\ run = NoRun
    /\ shell = NoShell
    /\ timer = NoTimer
    /\ assembly = NoAssembly

NoCallFrame == [phase |-> 0, first |-> 1, last |-> 0, pos |-> 1, n0 |-> 0]

NoSummary == [printed |-> FALSE, token |-> None]

NoCleanup == [invoked |-> FALSE, id |-> NoId, outcome |-> "none"]

Fill(list, x) == [i \in 1..Len(list) |-> x]

\* the orchestrator at rest, with the objects of the last call discarded
OrchIdle ==
    /\ pc = "idle"
    /\ cfg = NoConfig
    /\ steps = <<>>
    /\ call = NoCallFrame
    /\ bar = [total |-> 0, n |-> 0]
    /\ env = FALSE
    /\ outcome = "none"
    /\ first_run = FALSE
    /\ summary = NoSummary
    /\ cleanup = NoCleanup
    /\ status = <<>>
    /\ evals = <<>>
    /\ ran = <<>>
    /\ returned = <<>>
    /\ writes = <<>>

-----------------------------------------------------------------------------
(* run_steps *)

\* mutant: the local proxy's skip_if forgets the TLS case
SkipIfProxyIgnoresTls(tag) ==
    CASE tag = "not configure_ufw"     -> ~cfg.configure_ufw
      [] tag = "skip_download"         -> cfg.skip_download
      [] tag = "not hashed or use_tls" -> auth_mode # HASHED
      [] tag = "not use_tls"           -> ~cfg.use_tls
      [] tag = "env"                   -> env
      [] tag = "not env"               -> ~env
      [] OTHER                         -> FALSE

\* mutant: the model steps are not skipped under skip_download
SkipIfDownloadsNever(tag) ==
    CASE tag = "not configure_ufw"     -> ~cfg.configure_ufw
      [] tag = "skip_download"         -> FALSE
      [] tag = "not hashed or use_tls" -> auth_mode # HASHED \/ cfg.use_tls
      [] tag = "not use_tls"           -> ~cfg.use_tls
      [] tag = "env"                   -> env
      [] tag = "not env"               -> ~env
      [] OTHER                         -> FALSE

\* step.skip_if(), evaluated on the state of this moment
SkipIf(tag) ==
    CASE tag = "not configure_ufw"     -> ~cfg.configure_ufw
      [] tag = "skip_download"         -> cfg.skip_download
      [] tag = "not hashed or use_tls" -> auth_mode # HASHED \/ cfg.use_tls
      [] tag = "not use_tls"           -> ~cfg.use_tls
      [] tag = "env"                   -> env
      [] tag = "not env"               -> ~env
      [] OTHER                         -> FALSE

\* mutant: the predicate's value is fixed when the list is assembled
SkipsAsAssembled(step) ==
    /\ step.skip_if # "none"
    /\ IF step.skip_if = "env" THEN FALSE
       ELSE IF step.skip_if = "not env" THEN TRUE
       ELSE SkipIf(step.skip_if)

\* if step.skip_if and step.skip_if()
Skips(step) == step.skip_if # "none" /\ SkipIf(step.skip_if)

\* mutant: a skipped step does not advance the bar
UpdateOnSkipMissing(b) == b

\* bar.update(1) of a skipped step
UpdateOnSkip(b) == [b EXCEPT !.n = @ + 1]

\* bar.update(1) of a step that ran
UpdateOnDone(b) == [b EXCEPT !.n = @ + 1]

\* mutant: the return value of fn is dropped
SetResultDropped(list, i, ret) == list

\* step.result = step.fn()
SetResult(list, i, ret) == [list EXCEPT ![i].result = ret]

\* mutant: the exception is swallowed and the loop goes on
AfterRaiseContinues(frame) == "run_steps"

\* where control goes when step.fn() raises: out of run_steps, to the caller
\* (the harness has none; run_deploy's try block hands it to finally)
AfterRaise(frame) == IF frame.phase = 0 THEN "returned" ELSE "finally"

InRunSteps == pc = "run_steps" /\ call.pos <= call.last

AtReturn == pc = "run_steps" /\ call.pos > call.last

Evaluated(i) == IF steps[i].skip_if # "none" THEN 1 ELSE 0

\* the loop body for a step whose skip_if returns true
RunStepsSkip ==
    /\ InRunSteps
    /\ Skips(steps[call.pos])
    /\ status' = [status EXCEPT ![call.pos] = "skipped"]
    /\ evals' = [evals EXCEPT ![call.pos] = @ + 1]
    /\ bar' = UpdateOnSkip(bar)
    /\ call' = [call EXCEPT !.pos = @ + 1]
    /\ UNCHANGED <<pc, cfg, steps, env, outcome, first_run, summary, cleanup,
                   deploys, ran, returned, writes>>
    /\ UNCHANGED storeVars
    /\ UNCHANGED sysVars

\* the record of an assignment to the result of step i
Written(w, i, by) == [w EXCEPT ![i] = Append(@, by)]

\* the loop body once step.fn() has returned ret
StepReturns(i, ret) ==
    /\ steps' = SetResult(steps, i, ret)
    /\ status' = [status EXCEPT ![i] = "done"]
    /\ evals' = [evals EXCEPT ![i] = @ + Evaluated(i)]
    /\ ran' = [ran EXCEPT ![i] = @ + 1]
    /\ returned' = [returned EXCEPT ![i] = ret]
    /\ writes' = Written(writes, i, "run_steps")
    /\ bar' = UpdateOnDone(bar)
    /\ call' = [call EXCEPT !.pos = @ + 1]
    /\ UNCHANGED <<pc, cfg, outcome, first_run, summary, cleanup, deploys>>

\* the loop body when step.fn() raises
StepRaises(i, exc) ==
    /\ status' = [status EXCEPT ![i] = "failed"]
    /\ evals' = [evals EXCEPT ![i] = @ + Evaluated(i)]
    /\ ran' = [ran EXCEPT ![i] = @ + 1]
    /\ pc' = AfterRaise(call)
    /\ outcome' = exc
    /\ UNCHANGED <<cfg, steps, call, bar, first_run, summary, cleanup, deploys,
                   returned, writes>>

\* how the step functions run_deploy hands to run_steps can fail
Failures(fn) ==
    IF fn = "sanity_checks" THEN {"KeyboardInterrupt"} ELSE Raises

\* what they return
Returns(fn) ==
    CASE fn = "resolve_model llm" -> ResolvedSpec("llm", "download")
      [] fn = "resolve_model emb" -> ResolvedSpec("emb", "download")
      [] fn = "noop"              -> HarnessValue(call.pos, env)
      [] fn = "set_env"           -> HarnessValue(call.pos, env)
      [] OTHER                    -> NoResult

\* a step function other than the token step returns
RunStepsCall ==
    /\ InRunSteps
    /\ ~Skips(steps[call.pos])
    /\ steps[call.pos].fn # "_ensure_first_token"
    /\ StepReturns(call.pos, Returns(steps[call.pos].fn))
    /\ env' = (env \/ steps[call.pos].fn = "set_env")
    /\ UNCHANGED storeVars
    /\ UNCHANGED sysVars

\* a step function other than the token step raises
RunStepsRaise ==
    /\ InRunSteps
    /\ ~Skips(steps[call.pos])
    /\ steps[call.pos].fn # "_ensure_first_token"
    /\ \E exc \in Failures(steps[call.pos].fn) : StepRaises(call.pos, exc)
    /\ UNCHANGED env
    /\ UNCHANGED storeVars
    /\ UNCHANGED sysVars

-----------------------------------------------------------------------------
(* _ensure_first_token, _is_new_token *)

_is_new_token == Len(active_tokens(tokens_json)) = 0

\* mutant: the first token is created without the configured value
FirstTokenValueDropped(c) == None

\* the value _ensure_first_token hands to create_token for the first token
FirstTokenValue(c) == c.api_token

\* what _ensure_first_token returns for the token it created as the first one
FirstRuntime(record) == TokenRuntime(record.value, NoId)

\* mutant: the smoke-test token is returned like a permanent one
SmokeRuntimePermanent(smoke) == TokenRuntime(smoke.value, NoId)

\* what _ensure_first_token returns for the smoke-test token it created
SmokeRuntime(smoke) == TokenRuntime(smoke.value, smoke.id)

\* mutant: the stored token is handed back as a temporary one
ExistingRuntimeTemporary(t) == TokenRuntime(t.value, t.id)

\* what _ensure_first_token returns for the active token it found
ExistingRuntime(t) == TokenRuntime(t.value, NoId)

\* mutant: the store is never found to hold an active token
ExistingNever(active) == FALSE

\* if active:
Existing(active) == active # <<>>

\* if active[0].value:
Retrievable(active) == Existing(active) /\ Truthy(active[1].value)

\* the store calls of _ensure_first_token(c); fault is the write that raises
_ensure_first_token(c, fault) ==
    LET active == active_tokens(tokens_json)
    IN  IF Retrievable(active)
        THEN /\ last' = Call("active", NoId, None, "ok", active)
             /\ UNCHANGED <<tokens_json, api_keys, token_hashes, clock>>
        ELSE IF Existing(active)
        THEN create_token("__deploy-smoke-test", None, fault)
        ELSE create_token(c.api_token_name, FirstTokenValue(c), fault)

\* what it returns, from the active tokens it found and its last store call
EnsuredRuntime(active, made) ==
    IF Retrievable(active) THEN ExistingRuntime(active[1])
    ELSE IF Existing(active) THEN SmokeRuntime(made.ret[1])
    ELSE FirstRuntime(made.ret[1])

\* the token step: fn=lambda: _ensure_first_token(cfg)
RunTokenStep ==
    /\ InRunSteps
    /\ ~Skips(steps[call.pos])
    /\ steps[call.pos].fn = "_ensure_first_token"
    /\ \E fault \in Faults : _ensure_first_token(cfg, fault)
    /\ UNCHANGED auth_mode
    /\ IF last'.outcome = "ok"
       THEN StepReturns(call.pos, EnsuredRuntime(active_tokens(tokens_json), last'))
       ELSE StepRaises(call.pos, "Exception")
    /\ UNCHANGED env
    /\ UNCHANGED sysVars

-----------------------------------------------------------------------------
(* run_deploy *)

\* run_steps(steps[first..last], bar)
Enter(phase, lo, hi) ==
    [phase |-> phase, first |-> lo, last |-> hi, pos |-> lo, n0 |-> bar.n]

\* run_deploy up to the first run_steps call
StartDeploy ==
    /\ pc = "idle"
    /\ deploys < MaxDeploys
    /\ \E c \in Configs :
          LET all == all_steps(c, auth_mode)
          IN  /\ cfg' = c
              /\ steps' = all
              /\ status' = Fill(all, "pending")
              /\ evals' = Fill(all, 0)
              /\ ran' = Fill(all, 0)
              /\ returned' = Fill(all, NoResult)
              /\ writes' = Fill(all, <<>>)
              /\ bar' = [total |-> Len(all), n |-> 0]
              /\ call' = [phase |-> 1, first |-> 1, last |-> Len(system_steps),
                          pos |-> 1, n0 |-> 0]
    /\ first_run' = _is_new_token
    /\ last' = Call("active", NoId, None, "ok", active_tokens(tokens_json))
    /\ pc' = "run_steps"
    /\ deploys' = deploys + 1
    /\ UNCHANGED <<env, outcome, summary, cleanup>>
    /\ UNCHANGED <<auth_mode, tokens_json, api_keys, token_hashes, clock>>
    /\ UNCHANGED sysVars

\* the position of the step that resolves this model
ModelStepAt(list, role) ==
    StepAt(list, model_steps[IF role = "llm" THEN 1 ELSE 2].label)

\* mutant: the recovery assigns nothing
ResolveFromDiskNothing(list, c, role) == list

\* _resolve_from_disk's write of step.result
ResolveFromDisk(list, c, role) ==
    [list EXCEPT ![ModelStepAt(list, role)].result = ResolvedSpec(role, "disk")]

\* mutant: a model without a file on disk goes unnoticed
NoMatchIgnored(c, role) == FALSE

\* if not matches: no .gguf of models_dir carries one of the model's patterns
NoMatch(c, role) == role \notin c.gguf

\* _resolve_from_disk(), then run_steps([llm_step, emb_step], bar)
_resolve_from_disk ==
    /\ AtReturn
    /\ call.phase = 1
    /\ IF ~cfg.skip_download
       THEN /\ call' = Enter(2, call.last + 1, call.last + Len(model_steps))
            /\ UNCHANGED <<steps, writes, pc, outcome>>
       ELSE IF NoMatch(cfg, "llm")
       THEN /\ pc' = "finally"
            /\ outcome' = "SystemExit"
            /\ UNCHANGED <<steps, writes, call>>
       ELSE IF NoMatch(cfg, "emb")
       THEN /\ steps' = ResolveFromDisk(steps, cfg, "llm")
            /\ writes' = Written(writes, ModelStepAt(steps, "llm"), "_resolve_from_disk")
            /\ pc' = "finally"
            /\ outcome' = "SystemExit"
            /\ UNCHANGED call
       ELSE /\ steps' = ResolveFromDisk(ResolveFromDisk(steps, cfg, "llm"), cfg, "emb")
            /\ writes' = Written(Written(writes, ModelStepAt(steps, "llm"),
                                         "_resolve_from_disk"),
                                 ModelStepAt(steps, "emb"), "_resolve_from_disk")
            /\ call' = Enter(2, call.last + 1, call.last + Len(model_steps))
            /\ UNCHANGED <<pc, outcome>>
    /\ UNCHANGED <<cfg, bar, env, first_run, summary, cleanup, deploys, status,
                   evals, ran, returned>>
    /\ UNCHANGED storeVars
    /\ UNCHANGED sysVars

\* run_steps(service_steps, bar)
RunServiceSteps ==
    /\ AtReturn
    /\ call.phase = 2
    /\ call' = Enter(3, call.last + 1, Len(steps))
    /\ UNCHANGED <<pc, cfg, steps, bar, env, outcome, first_run, summary, cleanup,
                   deploys, status, evals, ran, returned, writes>>
    /\ UNCHANGED storeVars
    /\ UNCHANGED sysVars

\* mutant: the summary displays the token whatever first_run is
SummaryTokenAlways(api_token, first) == api_token

\* the token _print_summary displays
SummaryToken(api_token, first) == IF first THEN api_token ELSE None

\* the end of the with block and _print_summary(cfg, token_step.result.value, first_run)
_print_summary ==
    /\ AtReturn
    /\ call.phase = 3
    /\ summary' = [printed |-> TRUE,
                   token |-> SummaryToken(
                       steps[StepAt(steps, "Create API token")].result.value, first_run)]
    /\ pc' = "finally"
    /\ outcome' = "ok"
    /\ UNCHANGED <<cfg, steps, call, bar, env, first_run, cleanup, deploys, status,
                   evals, ran, returned, writes>>
    /\ UNCHANGED storeVars
    /\ UNCHANGED sysVars

\* mutant: the cleanup is left out
NeedsCleanupNever(runtime) == FALSE

\* isinstance(runtime, TokenRuntime) and runtime.temporary_id
NeedsCleanup(runtime) ==
    runtime.kind = "TokenRuntime" /\ runtime.temporary_id # NoId

\* mutant: the first token of the store is revoked
CleanupTargetFirst(runtime) == 1

\* store.revoke_token(runtime.temporary_id)
CleanupTarget(runtime) == runtime.temporary_id

\* mutant: the exception of revoke_token leaves the finally block
AfterCleanupRaises(ended, revoked) == IF revoked = "ok" THEN ended ELSE revoked

\* how run_deploy ends after the cleanup: except Exception turns what
\* revoke_token raised into a warning, and the try block's end stands
AfterCleanup(ended, revoked) == ended

\* the finally block of run_deploy, and the return or re-raise after it
Finally ==
    /\ pc = "finally"
    /\ LET runtime == steps[StepAt(steps, "Create API token")].result
       IN  IF NeedsCleanup(runtime)
           THEN /\ \E fault \in Faults : revoke_token(CleanupTarget(runtime), fault)
                /\ cleanup' = [invoked |-> TRUE, id |-> CleanupTarget(runtime),
                               outcome |-> last'.outcome]
                /\ outcome' = AfterCleanup(outcome, last'.outcome)
           ELSE /\ UNCHANGED <<tokens_json, api_keys, token_hashes, clock, last>>
                /\ UNCHANGED <<cleanup, outcome>>
    /\ pc' = "returned"
    /\ UNCHANGED <<auth_mode, cfg, steps, call, bar, env, first_run,
                   summary, deploys, status, evals, ran, returned, writes>>
    /\ UNCHANGED sysVars

\* run_deploy is over: its objects are discarded
Return ==
    /\ pc = "returned"
    /\ call.phase # 0
    /\ pc' = "idle"
    /\ cfg' = NoConfig
    /\ steps' = <<>>
    /\ call' = NoCallFrame
    /\ bar' = [total |-> 0, n |-> 0]
    /\ env' = FALSE
    /\ outcome' = "none"
    /\ first_run' = FALSE
    /\ summary' = NoSummary
    /\ cleanup' = NoCleanup
    /\ status' = <<>>
    /\ evals' = <<>>
    /\ ran' = <<>>
    /\ returned' = <<>>
    /\ writes' = <<>>
    /\ UNCHANGED deploys
    /\ UNCHANGED storeVars
    /\ UNCHANGED sysVars

-----------------------------------------------------------------------------
(* The orchestrator under its two callers: run_deploy on a secrets directory that
   token commands have prepared, and a direct call of run_steps on a list of
   steps *)

\* the step lists handed to run_steps directly
HarnessSteps ==
    {Step("step", fn, skip_if) :
        fn \in {"noop", "set_env"}, skip_if \in {"none", "env", "not env"}}

HarnessLists == UNION {[1..n -> HarnessSteps] : n \in 0..MaxSteps}

SetupCreate ==
    /\ pc = "idle"
    /\ Len(_load(tokens_json)) < MaxSetupTokens
    /\ deploys = 0
    /\ create_token("app", None, "none")
    /\ UNCHANGED auth_mode
    /\ UNCHANGED orchVars
    /\ UNCHANGED sysVars

SetupRevoke ==
    /\ pc = "idle"
    /\ \E id \in 1..Len(_load(tokens_json)) :
          /\ ~_load(tokens_json)[id].revoked
          /\ revoke_token(id, "none")
    /\ UNCHANGED auth_mode
    /\ UNCHANGED orchVars
    /\ UNCHANGED sysVars

StoreInit ==
    /\ tokens_json = [exists |-> FALSE, tokens |-> <<>>]
    /\ api_keys = [exists |-> FALSE, lines |-> <<>>]
    /\ token_hashes = [exists |-> FALSE, hashes |-> <<>>]
    /\ clock = 1
    /\ last = NoCall

InitDeploy ==
    /\ auth_mode \in AuthModes
    /\ StoreInit
    /\ OrchIdle
    /\ deploys = 0
    /\ SysIdle

InitRunSteps ==
    /\ auth_mode = PLAINTEXT
    /\ StoreInit
    /\ steps \in HarnessLists
    /\ pc = "run_steps"
    /\ cfg = NoConfig
    /\ call = [phase |-> 0, first |-> 1, last |-> Len(steps), pos |-> 1, n0 |-> 0]
    /\ bar = [total |-> Len(steps), n |-> 0]
    /\ env = FALSE
    /\ outcome = "none"
    /\ first_run = FALSE
    /\ summary = NoSummary
    /\ cleanup = NoCleanup
    /\ deploys = 0
    /\ status = Fill(steps, "pending")
    /\ evals = Fill(steps, 0)
    /\ ran = Fill(steps, 0)
    /\ returned = Fill(steps, NoResult)
    /\ writes = Fill(steps, <<>>)
    /\ SysIdle

\* run_steps returns to the harness
HarnessReturn ==
    /\ AtReturn
    /\ call.phase = 0
    /\ pc' = "returned"
    /\ outcome' = "ok"
    /\ UNCHANGED <<cfg, steps, call, bar, env, first_run, summary, cleanup, deploys,
                   status, evals, ran, returned, writes>>
    /\ UNCHANGED storeVars
    /\ UNCHANGED sysVars

InitOrch == InitDeploy \/ InitRunSteps

NextOrch ==
    \/ SetupCreate
    \/ SetupRevoke
    \/ StartDeploy
    \/ RunStepsSkip
    \/ RunStepsCall
    \/ RunStepsRaise
    \/ RunTokenStep
    \/ _resolve_from_disk
    \/ RunServiceSteps
    \/ _print_summary
    \/ Finally
    \/ Return
    \/ HarnessReturn

SpecOrch == InitOrch /\ [][NextOrch]_vars

-----------------------------------------------------------------------------
(* _ensure_first_token called directly, any number of times in a row, on a
   secrets directory that token commands have prepared; returned collects what
   the calls returned (NoResult for a call that raised) *)

\* the configurations of these calls: only api_token_name and api_token are read
BootstrapConfigs ==
    {Config(FALSE, FALSE, FALSE, FALSE, a, {}) : a \in {None, "sk-a"}}

Bootstrap ==
    /\ pc \in {"idle", "bootstrap"}
    /\ Len(returned) < MaxBootstraps
    /\ \E c \in BootstrapConfigs :
          /\ pc = "bootstrap" => c = cfg
          /\ cfg' = c
          /\ \E fault \in Faults : _ensure_first_token(c, fault)
    /\ returned' =
          Append(returned,
                 IF last'.outcome = "ok"
                 THEN EnsuredRuntime(active_tokens(tokens_json), last')
                 ELSE NoResult)
    /\ pc' = "bootstrap"
    /\ UNCHANGED auth_mode
    /\ UNCHANGED <<steps, call, bar, env, outcome, first_run, summary, cleanup,
                   deploys, status, evals, ran, writes>>
    /\ UNCHANGED sysVars

NextBootstrap ==
    \/ SetupCreate
    \/ SetupRevoke
    \/ Bootstrap

SpecBootstrap == InitDeploy /\ [][NextBootstrap]_vars

-----------------------------------------------------------------------------
(* The token-management commands: one store call each *)

TokenIds == 1..(MaxTokens + 1)

CliCreate ==
    /\ Len(_load(tokens_json)) < MaxTokens
    /\ \E value \in ValueArgs, fault \in Faults : create_token("app", value, fault)
    /\ UNCHANGED auth_mode
    /\ UNCHANGED orchVars
    /\ UNCHANGED sysVars

CliRevoke ==
    /\ \E id \in TokenIds, fault \in Faults : revoke_token(id, fault)
    /\ UNCHANGED auth_mode
    /\ UNCHANGED orchVars
    /\ UNCHANGED sysVars

CliShow ==
    /\ \E id \in TokenIds : show_token(id)
    /\ UNCHANGED auth_mode
    /\ UNCHANGED orchVars
    /\ UNCHANGED sysVars

CliList ==
    /\ last' = Call("list", 0, None, "ok", list_tokens(tokens_json))
    /\ UNCHANGED <<auth_mode, tokens_json, api_keys, token_hashes, clock>>
    /\ UNCHANGED orchVars
    /\ UNCHANGED sysVars

CliActive ==
    /\ last' = Call("active", 0, None, "ok", active_tokens(tokens_json))
    /\ UNCHANGED <<auth_mode, tokens_json, api_keys, token_hashes, clock>>
    /\ UNCHANGED orchVars
    /\ UNCHANGED sysVars

Init ==
    /\ auth_mode \in AuthModes
    /\ StoreInit
    /\ OrchIdle
    /\ deploys = 0
    /\ SysIdle

Next ==
    \/ CliCreate
    \/ CliRevoke
    \/ CliShow
    \/ CliList
    \/ CliActive

Spec == Init /\ [][Next]_vars

-----------------------------------------------------------------------------
(* The token-management commands when secrets.token_hex(6) may return what it
   returned before: create_token does not compare the identifier it draws with
   the identifiers of tokens.json *)

\* the identifiers secrets.token_hex(6) returns
TokenHex == 1..MaxTokens

CliCreateDrawn ==
    /\ Len(_load(tokens_json)) < MaxTokens
    /\ \E token_id \in TokenHex, value \in ValueArgs, fault \in Faults :
          create_token_as(token_id, "app", value, fault)
    /\ UNCHANGED auth_mode
    /\ UNCHANGED orchVars
    /\ UNCHANGED sysVars

NextDrawn ==
    \/ CliCreateDrawn
    \/ CliRevoke
    \/ CliShow
    \/ CliList
    \/ CliActive

SpecDrawn == Init /\ [][NextDrawn]_vars

-----------------------------------------------------------------------------
(* The helpers of the configuration assembly: pick_free_bind_port of
   llama_deploy/system.py and _auto_optimize_cfg of llama_deploy/orchestrator.py,
   as spec.md 4.4 and 4.5 describe them *)

Hosts == {"0.0.0.0", "127.0.0.1"}

\* the port range: the scan is not followed beyond its last port
Ports == 1..PortSpan

\* the bind probe: free is the set of <<host, port>> a bind attempt succeeds on
_is_bind_port_free(free, host, port) == <<host, port>> \in free

CandidateIgnoresAvoid(host, port, avoid, free) ==
    _is_bind_port_free(free, host, port)

\* the scan returns at this port
Candidate(host, port, avoid, free) ==
    port \notin avoid /\ _is_bind_port_free(free, host, port)

RECURSIVE ScanFrom(_, _, _, _)
\* the scan: one port after the other, upward
ScanFrom(host, port, avoid, free) ==
    IF port \notin Ports THEN [returned |-> FALSE, port |-> port]
    ELSE IF Candidate(host, port, avoid, free)
    THEN [returned |-> TRUE, port |-> port]
    ELSE ScanFrom(host, port + 1, avoid, free)

pick_free_bind_port(host, preferred_port, avoid, free) ==
    ScanFrom(host, preferred_port, avoid, free)

\* the helpers are pure: a behaviour holds one call of one of them
PickPort ==
    /\ assembly = NoAssembly
    /\ \E host \in Hosts, preferred_port \in Ports, avoid \in SUBSET Ports,
          free \in SUBSET (Hosts \X Ports) :
          assembly' =
              [op   |-> "pick_free_bind_port",
               args |-> [host |-> host, preferred_port |-> preferred_port,
                         avoid |-> avoid, free |-> free],
               out  |-> pick_free_bind_port(host, preferred_port, avoid, free)]
    /\ UNCHANGED <<run, shell, timer>>
    /\ UNCHANGED storeVars
    /\ UNCHANGED orchVars

\* the floor of models_max: the two models the validation loads together
ModelsFloor == 2

\* the baseline values of Config.models_max
ModelCounts == 1..MaxModels

\* what _detect_mem_total_gib returns
MemSizes == 0..MaxMemGib

ClampUnclamped(floor, n) == n

Clamp(floor, n) == IF n < floor THEN floor ELSE n

\* proposal is the models_max the memory heuristic arrives at from the baseline
\* and the detected memory: spec.md gives no formula for it, only the floor
_auto_optimize_cfg(c, mem_gib, proposal) ==
    [raised |-> FALSE,
     cfg    |-> [c EXCEPT !.models_max = Clamp(ModelsFloor, proposal)]]

AutoOptimize ==
    /\ assembly = NoAssembly
    /\ \E models_max \in ModelCounts, mem_gib \in MemSizes,
          proposal \in 0..MaxModels :
          LET c == [models_max |-> models_max]
          IN  assembly' =
                  [op   |-> "_auto_optimize_cfg",
                   args |-> [cfg |-> c, mem_gib |-> mem_gib, proposal |-> proposal],
                   out  |-> _auto_optimize_cfg(c, mem_gib, proposal)]
    /\ UNCHANGED <<run, shell, timer>>
    /\ UNCHANGED storeVars
    /\ UNCHANGED orchVars

NextAssembly ==
    \/ PickPort
    \/ AutoOptimize

SpecAssembly == InitDeploy /\ [][NextAssembly]_vars

-----------------------------------------------------------------------------
(* log.py: sh, the command runner *)

\* the exit statuses of a command
ExitCodes == {0, 1}

\* Popen(["bash", "-lc", cmd], preexec_fn=os.setsid): the command runs in a
\* process group of its own, and sh reads its output
Popen(cmd, check) ==
    [at |-> "stream", cmd |-> cmd, check |-> check, group |-> "running",
     rc |-> 0, outcome |-> "none"]

\* os.killpg(proc.pid, SIGTERM); what it raises for a group that is gone is
\* swallowed
killpg(group) == IF group = "running" THEN "signalled" ELSE group

DiesWhateverCheck(check, rc) == rc # 0

\* sh calls die
Dies(check, rc) == check /\ rc # 0

\* sh is between Popen and its end
InSh == shell.at \in {"stream", "wait"}

\* the command's last process exits; nothing delivers the terminal's SIGINT to
\* it, as setsid took it out of the terminal's foreground group
ProcExit ==
    /\ InSh
    /\ shell.group = "running"
    /\ \E rc \in ExitCodes :
          shell' = [shell EXCEPT !.group = "exited", !.rc = rc]
    /\ UNCHANGED <<run, timer, assembly>>
    /\ UNCHANGED storeVars
    /\ UNCHANGED orchVars

\* `for line in proc.stdout` ends: the output was closed, by a command that
\* exited or by one that still runs
ShEof ==
    /\ shell.at = "stream"
    /\ shell' = [shell EXCEPT !.at = "wait"]
    /\ UNCHANGED <<run, timer, assembly>>
    /\ UNCHANGED storeVars
    /\ UNCHANGED orchVars

\* rc = proc.wait(), then die or return rc
ShWait ==
    /\ shell.at = "wait"
    /\ shell.group = "exited"
    /\ shell' = [shell EXCEPT
                    !.at = "done",
                    !.outcome = IF Dies(shell.check, shell.rc)
                                THEN "SystemExit" ELSE "ok"]
    /\ UNCHANGED <<run, timer, assembly>>
    /\ UNCHANGED storeVars
    /\ UNCHANGED orchVars

\* KeyboardInterrupt inside the try of the streaming loop: killpg, then raise
ShInterruptStream ==
    /\ shell.at = "stream"
    /\ shell' = [shell EXCEPT
                    !.at = "done",
                    !.group = killpg(shell.group),
                    !.outcome = "KeyboardInterrupt"]
    /\ UNCHANGED <<run, timer, assembly>>
    /\ UNCHANGED storeVars
    /\ UNCHANGED orchVars

\* KeyboardInterrupt in proc.wait(), which no try encloses: it propagates
ShInterruptWait ==
    /\ shell.at = "wait"
    /\ shell' = [shell EXCEPT !.at = "done", !.outcome = "KeyboardInterrupt"]
    /\ UNCHANGED <<run, timer, assembly>>
    /\ UNCHANGED storeVars
    /\ UNCHANGED orchVars

\* a step body calls sh(cmd) or sh(cmd, check=False)
CallSh ==
    /\ run = NoRun
    /\ \E check \in BOOLEAN :
          /\ run' = [NoRun EXCEPT !.fn = "sh", !.cmds = <<"cmd">>]
          /\ shell' = Popen("cmd", check)
    /\ UNCHANGED <<timer, assembly>>
    /\ UNCHANGED storeVars
    /\ UNCHANGED orchVars

\* sh ends, and with it the step body
ShReturn ==
    /\ run.fn = "sh"
    /\ run.outcome = "none"
    /\ shell.at = "done"
    /\ run' = [run EXCEPT !.outcome = shell.outcome]
    /\ UNCHANGED <<shell, timer, assembly>>
    /\ UNCHANGED storeVars
    /\ UNCHANGED orchVars

-----------------------------------------------------------------------------
(* health.py: sanity_checks *)

\* cfg.network as sanity_checks reads it
Networks == [publish : BOOLEAN, is_public : BOOLEAN]

\* the inspection commands, in the order of their sh calls
SanityCommands(net) ==
    <<"docker ps", "docker logs", "ss -lntp">>
    \o (IF net.publish /\ ~net.is_public THEN <<"ss -lntp | grep">> ELSE <<>>)

CallSanityChecks ==
    /\ run = NoRun
    /\ \E net \in Networks :
          /\ run' = [NoRun EXCEPT !.fn = "sanity_checks", !.cmds = SanityCommands(net)]
          /\ shell' = Popen(SanityCommands(net)[1], FALSE)
    /\ UNCHANGED <<timer, assembly>>
    /\ UNCHANGED storeVars
    /\ UNCHANGED orchVars

\* an sh call returned its exit status and another one follows
SanityNext ==
    /\ run.fn = "sanity_checks"
    /\ run.outcome = "none"
    /\ shell.at = "done"
    /\ shell.outcome = "ok"
    /\ Len(run.rcs) + 1 < Len(run.cmds)
    /\ run' = [run EXCEPT !.rcs = Append(@, shell.rc)]
    /\ shell' = Popen(run.cmds[Len(run.rcs) + 2], FALSE)
    /\ UNCHANGED <<timer, assembly>>
    /\ UNCHANGED storeVars
    /\ UNCHANGED orchVars

\* the last sh call returned, or an sh call raised
SanityReturn ==
    /\ run.fn = "sanity_checks"
    /\ run.outcome = "none"
    /\ shell.at = "done"
    /\ IF shell.outcome = "ok"
       THEN /\ Len(run.rcs) + 1 = Len(run.cmds)
            /\ run' = [run EXCEPT !.rcs = Append(@, shell.rc), !.outcome = "ok"]
       ELSE run' = [run EXCEPT !.outcome = shell.outcome]
    /\ UNCHANGED <<shell, timer, assembly>>
    /\ UNCHANGED storeVars
    /\ UNCHANGED orchVars

-----------------------------------------------------------------------------
(* health.py: wait_health, with time in seconds since its call *)

\* urlopen(req, timeout=3)
ProbeTimeout == 3

\* the values of timeout_s
Timeouts == 1..MaxTimeout

\* what a probe ends with: status 200, another status urlopen returns, or an
\* exception (refused, timed out, HTTPError)
Answers == {"200", "204", "error"}

HealthyAnyStatus(answer) == answer # "error"

\* resp.status == 200
Healthy(answer) == answer = "200"

InWaitHealth == run.fn = "wait_health" /\ run.outcome = "none"

CallWaitHealth ==
    /\ run = NoRun
    /\ \E timeout_s \in Timeouts :
          timer' = [at |-> "while", now |-> 0, deadline |-> 0 + timeout_s,
                    begun |-> 0, answer |-> "none"]
    /\ run' = [NoRun EXCEPT !.fn = "wait_health"]
    /\ UNCHANGED <<shell, assembly>>
    /\ UNCHANGED storeVars
    /\ UNCHANGED orchVars

\* while time.time() < deadline: the body is entered
WhileEnter ==
    /\ InWaitHealth
    /\ timer.at = "while"
    /\ timer.now < timer.deadline
    /\ timer' = [timer EXCEPT !.at = "urlopen", !.begun = timer.now]
    /\ UNCHANGED <<run, shell, assembly>>
    /\ UNCHANGED storeVars
    /\ UNCHANGED orchVars

\* the loop ends: die(...) raises SystemExit
WhileExpired ==
    /\ InWaitHealth
    /\ timer.at = "while"
    /\ ~(timer.now < timer.deadline)
    /\ timer' = [timer EXCEPT !.at = "done"]
    /\ run' = [run EXCEPT !.outcome = "SystemExit"]
    /\ UNCHANGED <<shell, assembly>>
    /\ UNCHANGED storeVars
    /\ UNCHANGED orchVars

\* the probe takes up to its timeout and ends with an answer
Probe ==
    /\ InWaitHealth
    /\ timer.at = "urlopen"
    /\ \E took \in 0..ProbeTimeout, answer \in Answers :
          IF Healthy(answer)
          THEN /\ timer' = [timer EXCEPT !.at = "done", !.now = @ + took,
                                         !.answer = answer]
               /\ run' = [run EXCEPT !.outcome = "ok"]
          ELSE /\ timer' = [timer EXCEPT !.at = "sleep", !.now = @ + took,
                                         !.answer = answer]
               /\ UNCHANGED run
    /\ UNCHANGED <<shell, assembly>>
    /\ UNCHANGED storeVars
    /\ UNCHANGED orchVars

\* time.sleep(1)
Sleep ==
    /\ InWaitHealth
    /\ timer.at = "sleep"
    /\ timer' = [timer EXCEPT !.at = "while", !.now = @ + 1]
    /\ UNCHANGED <<run, shell, assembly>>
    /\ UNCHANGED storeVars
    /\ UNCHANGED orchVars

\* KeyboardInterrupt, which `except Exception` does not catch
WaitInterrupt ==
    /\ InWaitHealth
    /\ timer' = [timer EXCEPT !.at = "done"]
    /\ run' = [run EXCEPT !.outcome = "KeyboardInterrupt"]
    /\ UNCHANGED <<shell, assembly>>
    /\ UNCHANGED storeVars
    /\ UNCHANGED orchVars

NextHealth ==
    \/ CallSh
    \/ ProcExit
    \/ ShEof
    \/ ShWait
    \/ ShInterruptStream
    \/ ShInterruptWait
    \/ ShReturn
    \/ CallSanityChecks
    \/ SanityNext
    \/ SanityReturn
    \/ CallWaitHealth
    \/ WhileEnter
    \/ WhileExpired
    \/ Probe
    \/ Sleep
    \/ WaitInterrupt

SpecHealth == InitDeploy /\ [][NextHealth]_vars

\* the interpreter goes on executing wait_health: urlopen ends within its
\* timeout and sleep returns
SpecHealthLive ==
    /\ SpecHealth
    /\ WF_vars(WhileEnter)
    /\ WF_vars(WhileExpired)
    /\ WF_vars(Probe)
    /\ WF_vars(Sleep)

-----------------------------------------------------------------------------
(* Properties of the orchestrator *)

Steps == 1..Len(steps)

Passed(i) == status[i] \in {"skipped", "done"}

TokenStepResult == steps[StepAt(steps, "Create API token")].result

InDeploy == call.phase # 0

\* env as step i's turn sees it: set by a step before i that ran to its end
EnvAt(i) == \E j \in 1..(i - 1) : status[j] = "done" /\ steps[j].fn = "set_env"

\* the value of step i's skip_if at its turn
SkipIfAt(i) ==
    CASE steps[i].skip_if = "none"    -> FALSE
      [] steps[i].skip_if = "env"     -> EnvAt(i)
      [] steps[i].skip_if = "not env" -> ~EnvAt(i)
      [] OTHER                        -> SkipIf(steps[i].skip_if)

\* C1: when run_deploy returns or re-raises (after success, an exception, a fatal
\* exit or an interrupt) and the token step's result carries a temporary_id,
\* revoke_token has been called on that identifier.
C1_TemporaryTokenRevokeInvoked ==
    (pc = "returned" /\ InDeploy) =>
        ((TokenStepResult.kind = "TokenRuntime" /\ TokenStepResult.temporary_id # NoId)
            => (cleanup.invoked /\ cleanup.id = TokenStepResult.temporary_id))

\* a deployment with a temporary token that a later step aborted by a fatal exit
C1_Witness ==
    /\ pc = "returned"
    /\ InDeploy
    /\ TokenStepResult.temporary_id # NoId
    /\ outcome = "SystemExit"
    /\ cleanup.invoked

\* C3: steps are handled in list order, one at a time: a step is touched only when
\* every step before it has run to its end or been skipped; skip_if is evaluated
\* at most once and fn called at most once per step, fn exactly once for a step
\* that is not skipped; and a step is skipped exactly when its skip_if is true on
\* the state its turn sees, earlier steps' changes included.
C3_ListOrderOnceEach ==
    \A i \in Steps :
        /\ status[i] # "pending" => \A j \in 1..(i - 1) : Passed(j)
        /\ status[i] = "pending" => ran[i] = 0 /\ evals[i] = 0
        /\ status[i] = "skipped" => ran[i] = 0 /\ evals[i] = 1 /\ SkipIfAt(i)
        /\ status[i] \in {"done", "failed"} =>
              /\ ran[i] = 1
              /\ evals[i] = (IF steps[i].skip_if = "none" THEN 0 ELSE 1)
              /\ ~SkipIfAt(i)

\* a call of run_steps that skipped a step because an earlier step had set env
C3_Witness ==
    /\ pc = "returned"
    /\ \E i \in Steps :
          steps[i].skip_if = "env" /\ status[i] = "skipped" /\ i < Len(steps)
          /\ status[i + 1] = "done"

\* C4: when a step's fn raises, run_steps is left at once with that exception: no
\* later step's skip_if or fn is evaluated, the failing fn is not called again and
\* the step's result stays unset.
C4_FailFast ==
    \A i \in Steps :
        status[i] = "failed" =>
            /\ pc # "run_steps"
            /\ outcome \in Raises
            /\ ran[i] = 1
            /\ steps[i].result = NoResult
            /\ \A j \in (i + 1)..Len(steps) :
                  status[j] = "pending" /\ evals[j] = 0 /\ ran[j] = 0

\* a step that raised with steps left after it
C4_Witness ==
    /\ pc = "returned"
    /\ \E i \in Steps : status[i] = "failed" /\ i < Len(steps)

\* C5: the bar has advanced once per step handled, skipped or run: a call of
\* run_steps that returns has advanced it by the length of its list, and a
\* deployment that succeeds has advanced it to its total, len(all_steps).
C5_ProgressCountsEveryStep ==
    /\ (pc \in {"run_steps", "finally", "returned"}) =>
          bar.n = Cardinality({i \in Steps : Passed(i)})
    /\ AtReturn => bar.n - call.n0 = call.last - call.first + 1
    /\ (pc = "returned" /\ ~InDeploy /\ outcome = "ok") =>
          bar.n = Len(steps)
    /\ (InDeploy /\ outcome = "ok") =>
          bar.n = bar.total /\ bar.total = Len(steps)

\* a deployment that succeeded with steps skipped
C5_Witness ==
    /\ pc = "returned"
    /\ InDeploy
    /\ outcome = "ok"
    /\ Cardinality({i \in Steps : status[i] = "skipped"}) >= 3

\* C6: a step that was not skipped and whose fn returned has that return value as
\* its result from then on.
C6_ResultIsReturnValue ==
    \A i \in Steps :
        status[i] = "done" =>
            /\ steps[i].result = returned[i]
            /\ steps[i].fn \in {"noop", "set_env"} =>
                  steps[i].result = HarnessValue(i, EnvAt(i))
            /\ steps[i].fn = "_ensure_first_token" =>
                  steps[i].result.kind = "TokenRuntime"

\* a step with a skip_if that returned false, run to its end, after run_steps returned
C6_Witness ==
    /\ pc = "returned"
    /\ outcome = "ok"
    /\ \E i \in Steps :
          /\ steps[i].skip_if = "not env"
          /\ status[i] = "done"
          /\ steps[i].result = HarnessValue(i, TRUE)

\* the token step of the running deployment
TokenStep == StepAt(steps, "Create API token")

\* this step of run_deploy is _ensure_first_token returning
TokenStepReturns ==
    /\ InDeploy
    /\ Len(status') = Len(status)
    /\ status[TokenStep] # "done"
    /\ status'[TokenStep] = "done"

\* this step of run_deploy is _ensure_first_token, returning or raising
TokenStepRuns ==
    /\ InDeploy
    /\ Len(status') = Len(status)
    /\ status[TokenStep] = "pending"
    /\ status'[TokenStep] # "pending"

\* C21: _ensure_first_token on a store whose first active token has a stored
\* plaintext returns that plaintext with no temporary_id, appends no record and
\* writes none of tokens.json, api_keys, token_hashes.json.
C21_ExistingTokenReused ==
    [][(/\ TokenStepRuns
        /\ active_tokens(tokens_json) # <<>>
        /\ active_tokens(tokens_json)[1].value # None) =>
          /\ status'[TokenStep] = "done"
          /\ steps'[TokenStep].result =
                TokenRuntime(active_tokens(tokens_json)[1].value, NoId)
          /\ UNCHANGED <<tokens_json, api_keys, token_hashes>>]_vars

\* a plaintext redeployment that went on with the token the store already held
C21_Witness ==
    /\ InDeploy
    /\ auth_mode = PLAINTEXT
    /\ ~first_run
    /\ status[TokenStep] = "done"
    /\ steps[TokenStep].result = TokenRuntime(GenSecret(1), NoId)
    /\ Len(_load(tokens_json)) = 1
    /\ api_keys.lines = <<GenSecret(1)>>

\* C19: _ensure_first_token on a store without an active token creates exactly
\* one token, with the configured value when one is configured, returns its
\* plaintext with no temporary_id, and leaves exactly one active token, which
\* holds that value in plaintext mode (its hash in hashed mode).
C19_BootstrapFirstToken ==
    [][(TokenStepReturns /\ active_tokens(tokens_json) = <<>>) =>
          LET runtime == steps'[TokenStep].result
              active  == _load(tokens_json')
              mine    == {i \in 1..Len(active) : ~active[i].revoked}
          IN  /\ Len(active) = Len(_load(tokens_json)) + 1
              /\ SubSeq(active, 1, Len(_load(tokens_json))) = _load(tokens_json)
              /\ runtime.kind = "TokenRuntime"
              /\ runtime.temporary_id = NoId
              /\ runtime.value =
                    (IF cfg.api_token \in ExplicitValues
                     THEN cfg.api_token ELSE GenSecret(Len(active)))
              /\ mine = {Len(active)}
              /\ active[Len(active)].name = cfg.api_token_name
              /\ auth_mode = PLAINTEXT =>
                    /\ active[Len(active)].value = runtime.value
                    /\ api_keys'.lines = <<runtime.value>>
              /\ auth_mode = HASHED =>
                    active[Len(active)].hash = sha256(runtime.value)]_vars

\* a plaintext deployment with a configured token on a store whose only token
\* had been revoked
C19_Witness ==
    /\ InDeploy
    /\ auth_mode = PLAINTEXT
    /\ first_run
    /\ cfg.api_token \in ExplicitValues
    /\ status[TokenStep] = "done"
    /\ steps[TokenStep].result = TokenRuntime(cfg.api_token, NoId)
    /\ Len(_load(tokens_json)) = 2
    /\ _load(tokens_json)[1].revoked

\* C20: _ensure_first_token on a hashed store that has an active token creates
\* a new token named as the smoke-test one, returns its generated plaintext,
\* which is not the plaintext of any earlier record (nor the configured value),
\* and returns the new token's id as temporary_id.
C20_HashedRedeployTemporary ==
    [][(TokenStepReturns /\ auth_mode = HASHED /\ active_tokens(tokens_json) # <<>>) =>
          LET runtime == steps'[TokenStep].result
              before  == _load(tokens_json)
              after   == _load(tokens_json')
          IN  /\ Len(after) = Len(before) + 1
              /\ SubSeq(after, 1, Len(before)) = before
              /\ after[Len(after)].name = "__deploy-smoke-test"
              /\ ~after[Len(after)].revoked
              /\ runtime.kind = "TokenRuntime"
              /\ runtime.temporary_id # NoId
              /\ runtime.temporary_id = after[Len(after)].id
              /\ after[Len(after)].hash = sha256(runtime.value)
              /\ runtime.value = GenSecret(Len(after))
              /\ runtime.value \notin ExplicitValues
              /\ \A i \in 1..Len(before) : before[i].hash # sha256(runtime.value)
              /\ sha256(runtime.value) \in
                    {token_hashes'.hashes[i] : i \in 1..Len(token_hashes'.hashes)}]_vars

\* a hashed redeployment, configured with a token value, that got a temporary token
C20_Witness ==
    /\ InDeploy
    /\ auth_mode = HASHED
    /\ ~first_run
    /\ cfg.api_token \in ExplicitValues
    /\ status[TokenStep] = "done"
    /\ steps[TokenStep].result.temporary_id = _load(tokens_json)[Len(_load(tokens_json))].id
    /\ steps[TokenStep].result.value # cfg.api_token

\* C23: when revoke_token raises in the cleanup of run_deploy, run_deploy still
\* ends the way its try block ended: it returns normally after a pipeline that
\* succeeded (the summary was printed) and re-raises the pipeline's own
\* exception after one that failed; what revoke_token raised is only recorded.
C23_CleanupFailureIsWarning ==
    [][(/\ pc = "finally"
        /\ pc' = "returned"
        /\ cleanup'.invoked
        /\ cleanup'.outcome # "ok") =>
          /\ outcome' = outcome
          /\ outcome' = "ok" <=> summary'.printed
          /\ outcome' # "ok" =>
                /\ outcome' \in Raises
                /\ \/ \E i \in 1..Len(status') : status'[i] = "failed"
                   \/ cfg.skip_download]_vars

\* a successful hashed redeployment whose temporary token could not be revoked
C23_Witness ==
    /\ pc = "returned"
    /\ InDeploy
    /\ outcome = "ok"
    /\ summary.printed
    /\ cleanup.invoked
    /\ cleanup.outcome = "OSError"
    /\ \E t \in {active_tokens(tokens_json)[i] :
                    i \in 1..Len(active_tokens(tokens_json))} : t.id = cleanup.id

LocalProxyStep == StepAt(steps, "NGINX local auth proxy (hashed mode)")

TlsStep == StepAt(steps, "NGINX + Let's Encrypt TLS")

\* C26: in a deployment at most one of the local auth-proxy step and the TLS
\* step runs; the local proxy step runs exactly when the mode is hashed and
\* use_tls is off, the TLS step exactly when use_tls is on (otherwise the step
\* is skipped), for every auth mode and every use_tls.
C26_ProxyStepsExclusive ==
    InDeploy =>
        /\ ~(ran[LocalProxyStep] > 0 /\ ran[TlsStep] > 0)
        /\ ran[LocalProxyStep] <= 1 /\ ran[TlsStep] <= 1
        /\ ran[LocalProxyStep] > 0 => (auth_mode = HASHED /\ ~cfg.use_tls)
        /\ status[LocalProxyStep] = "skipped" => ~(auth_mode = HASHED /\ ~cfg.use_tls)
        /\ ran[TlsStep] > 0 => cfg.use_tls
        /\ status[TlsStep] = "skipped" => ~cfg.use_tls
        /\ (pc = "returned" /\ outcome = "ok") =>
              /\ status[LocalProxyStep] = "done" <=> (auth_mode = HASHED /\ ~cfg.use_tls)
              /\ status[TlsStep] = "done" <=> cfg.use_tls

\* a successful hashed deployment with a public domain: only the TLS step ran
C26_Witness ==
    /\ InDeploy
    /\ pc = "returned"
    /\ outcome = "ok"
    /\ auth_mode = HASHED
    /\ cfg.use_tls
    /\ status[LocalProxyStep] = "skipped"
    /\ status[TlsStep] = "done"

UpStep == StepAt(steps, "Start Docker Compose")

LlmStep == StepAt(steps, "Resolve + download LLM GGUF")

EmbStep == StepAt(steps, "Resolve + download embedding GGUF")

\* the steps of the running deployment whose function is fn and that ran to the end
DoneSteps(fn) == {i \in 1..Len(steps) : steps[i].fn = fn /\ status[i] = "done"}

\* the requests of the smoke step, from the results it reads when it runs
SmokeRequests ==
    curl_smoke_tests(loopback_url, TokenStepResult.value,
                     steps[LlmStep].result, steps[EmbStep].result)

\* the liveness wait ran, then the smoke tests, both after docker compose up
HealthThenSmoke ==
    /\ status[UpStep] = "done"
    /\ \E h \in DoneSteps("wait_health"), s \in DoneSteps("curl_smoke_tests") :
          UpStep < h /\ h < s /\ ran[h] = 1 /\ ran[s] = 1

\* the smoke requests are model listing, embedding and chat completion, the
\* last two naming the alias of the embedding and of the general-purpose model
FullBattery ==
    /\ steps[LlmStep].result.kind = "ModelSpec"
    /\ steps[EmbStep].result.kind = "ModelSpec"
    /\ TokenStepResult.kind = "TokenRuntime"
    /\ [i \in 1..3 |-> SmokeRequests[i].route] =
          << loopback_url \o "/v1/models", loopback_url \o "/v1/embeddings",
             loopback_url \o "/v1/chat/completions" >>
    /\ SmokeRequests[2].model = "alias of " \o steps[EmbStep].result.value
    /\ SmokeRequests[3].model = "alias of " \o steps[LlmStep].result.value
    /\ \A i \in 1..3 : SmokeRequests[i].token = TokenStepResult.value

Succeeded == pc = "returned" /\ InDeploy /\ outcome = "ok"

\* C27 as stated: every successful deployment, whatever its configuration,
\* waited for the liveness endpoint and then ran the full smoke battery with the
\* models' aliases, after the containers were started.
C27_AlwaysHealthThenSmoke ==
    Succeeded => (HealthThenSmoke /\ FullBattery)

\* C27 amended: a successful deployment that publishes the port or runs in
\* hashed mode waited for the liveness endpoint and then ran the full smoke
\* battery with the models' aliases, after the containers were started; any
\* other successful deployment ran, after the containers were started, the
\* internal-network test and the sanity checks in their place, and neither the
\* liveness wait nor the smoke battery.
C27_ValidationByExposure ==
    Succeeded =>
        IF cfg.publish \/ auth_mode = HASHED
        THEN /\ HealthThenSmoke
             /\ FullBattery
             /\ DoneSteps("_internal_test") = {}
        ELSE /\ status[UpStep] = "done"
             /\ \E t \in DoneSteps("_internal_test"), c \in DoneSteps("sanity_checks") :
                   UpStep < t /\ t < c
             /\ {i \in 1..Len(steps) :
                    steps[i].fn \in {"wait_health", "curl_smoke_tests"}} = {}

\* a successful plaintext deployment without a published port
C27_Witness ==
    /\ Succeeded
    /\ auth_mode = PLAINTEXT
    /\ ~cfg.publish
    /\ DoneSteps("_internal_test") # {}
    /\ Cardinality(DoneSteps("sanity_checks")) = 2

\* the records, in tokens.json, of the permanent tokens the calls created
PermanentCreated ==
    {i \in 1..Len(_load(tokens_json)) :
        _load(tokens_json)[i].name = cfg.api_token_name}

\* C22: consecutive calls of _ensure_first_token, with no other change of the
\* store between them, create at most one permanent token in all, in plaintext
\* and in hashed mode; every other record they append is a smoke-test token.
C22_BootstrapIdempotent ==
    pc = "bootstrap" =>
        /\ Cardinality(PermanentCreated) <= 1
        /\ \A i, j \in 1..Len(returned) :
              (/\ i < j
               /\ returned[i].kind = "TokenRuntime"
               /\ returned[j].kind = "TokenRuntime"
               /\ returned[j].temporary_id = NoId) =>
                    /\ auth_mode = PLAINTEXT
                    /\ returned[j].value = returned[i].value

\* three calls on a fresh hashed store: a permanent token, then two temporary ones
C22_Witness ==
    /\ pc = "bootstrap"
    /\ auth_mode = HASHED
    /\ Len(returned) = 3
    /\ returned[1].kind = "TokenRuntime" /\ returned[1].temporary_id = NoId
    /\ returned[2].temporary_id # NoId
    /\ returned[3].temporary_id # NoId
    /\ Cardinality(PermanentCreated) = 1

\* C31 as stated: a step's result is assigned at most once, by run_steps alone,
\* and only after the step's skip_if returned false or with no skip_if
C31_WrittenOnceByRunner ==
    \A i \in Steps :
        /\ Len(writes[i]) <= 1
        /\ writes[i] # <<>> =>
              /\ writes[i][1] = "run_steps"
              /\ status[i] = "done"
              /\ ~SkipIfAt(i)

\* C31: a step's result is assigned at most once: by run_steps, after the
\* step's skip_if returned false or with no skip_if; or, for the two model
\* steps of a deployment with skip_download, by _resolve_from_disk, before
\* run_steps reaches these steps, whose skip_if is then true and whose fn is
\* never called
C31_WrittenOnceByRunnerOrRecovery ==
    \A i \in Steps :
        /\ Len(writes[i]) <= 1
        /\ status[i] = "done" => writes[i] = <<"run_steps">>
        /\ writes[i] = <<"run_steps">> =>
              /\ status[i] = "done"
              /\ ~SkipIfAt(i)
              /\ evals[i] = (IF steps[i].skip_if = "none" THEN 0 ELSE 1)
        /\ writes[i] # <<>> /\ writes[i] # <<"run_steps">> =>
              /\ writes[i] = <<"_resolve_from_disk">>
              /\ InDeploy
              /\ cfg.skip_download
              /\ steps[i].skip_if = "skip_download"
              /\ status[i] \in {"pending", "skipped"}
              /\ ran[i] = 0

\* a deployment with skip_download that succeeded on a result _resolve_from_disk
\* had assigned to the skipped LLM step
C31_Witness ==
    /\ InDeploy
    /\ pc = "returned"
    /\ outcome = "ok"
    /\ writes[ModelStepAt(steps, "llm")] = <<"_resolve_from_disk">>
    /\ status[ModelStepAt(steps, "llm")] = "skipped"
    /\ steps[ModelStepAt(steps, "llm")].result = ResolvedSpec("llm", "disk")

\* step i of the deployment runs in this step: its fn returns or raises
StepRuns(i) ==
    /\ InDeploy
    /\ Len(status') = Len(status)
    /\ status[i] = "pending"
    /\ status'[i] \in {"done", "failed"}

\* the result of the step with this label holds what its readers expect: the
\* token material with a value, or the resolved specification of that model
Populated(label) ==
    LET r == steps[StepAt(steps, label)].result
    IN  CASE label = system_steps[6].label ->
                 r.kind = "TokenRuntime" /\ Truthy(r.value)
          [] label = model_steps[1].label ->
                 r \in {ResolvedSpec("llm", "download"), ResolvedSpec("llm", "disk")}
          [] label = model_steps[2].label ->
                 r \in {ResolvedSpec("emb", "download"), ResolvedSpec("emb", "disk")}
          [] OTHER -> FALSE

\* C32: whenever _write_config, curl_smoke_tests or _internal_test runs, every
\* step result it reads (of the LLM step, the embedding step, the token step)
\* has been assigned before, with downloads and with skip_download
C32_LazyReadsPopulated ==
    [][\A i \in Steps :
          StepRuns(i) => \A label \in Reads(steps[i].fn) : Populated(label)]_vars

\* a deployment with skip_download in which the configuration step and the
\* smoke tests ran on results read from disk
C32_Witness ==
    /\ InDeploy
    /\ pc = "returned"
    /\ outcome = "ok"
    /\ cfg.skip_download
    /\ DoneSteps("_write_config") # {}
    /\ DoneSteps("curl_smoke_tests") # {}
    /\ steps[EmbStep].result = ResolvedSpec("emb", "disk")

\* the deployment runs with skip_download and a model without a file on disk
ModelMissing == InDeploy /\ cfg.skip_download /\ cfg.gguf # ModelRoles

\* no model step and no service step has been touched, and the deployment that
\* got through its system steps ends by the fatal exit, after the cleanup of a
\* temporary token
C33_AbortsBeforeModels ==
    ModelMissing =>
        /\ \A i \in (Len(system_steps) + 1)..Len(steps) :
              status[i] = "pending" /\ ran[i] = 0 /\ evals[i] = 0
        /\ outcome # "ok"
        /\ ~summary.printed
        /\ (pc \in {"finally", "returned"} /\ \A i \in 1..Len(system_steps) : Passed(i))
              => outcome = "SystemExit"
        /\ (pc = "returned" /\ NeedsCleanup(TokenStepResult)) =>
              cleanup.invoked /\ cleanup.id = TokenStepResult.temporary_id

\* C33: with skip_download and no matching file for one of the two models the
\* deployment ends by the fatal exit before any model or service step runs,
\* and a temporary token is still handed to revoke_token; without skip_download
\* _resolve_from_disk changes nothing and the model steps follow
C33_RecoveryFatalWhenMissing ==
    /\ []C33_AbortsBeforeModels
    /\ [][(AtReturn /\ call.phase = 1 /\ ~cfg.skip_download) =>
             /\ UNCHANGED <<steps, writes, status, outcome, pc>>
             /\ UNCHANGED storeVars
             /\ call'.first = Len(system_steps) + 1]_vars

\* a hashed redeployment with skip_download and only the LLM file on disk: the
\* fatal exit, then the temporary token revoked
C33_Witness ==
    /\ ModelMissing
    /\ cfg.gguf = {"llm"}
    /\ pc = "returned"
    /\ outcome = "SystemExit"
    /\ status[TokenStep] = "done"
    /\ cleanup.invoked
    /\ cleanup.outcome = "ok"
    /\ _load(tokens_json)[cleanup.id].revoked

HasTemporary == InDeploy /\ pc # "idle" /\ TokenStepResult.temporary_id # NoId

\* the record of that temporary token
TemporaryRecord == _load(tokens_json)[FindToken(_load(tokens_json), TokenStepResult.temporary_id)]

\* while the pipeline runs, and up to the finally block, the temporary token
\* is active and token_hashes.json holds the hash of the value in use
C35_ActiveWhilePipelineRuns ==
    (HasTemporary /\ pc \in {"run_steps", "finally"}) =>
        /\ auth_mode = HASHED
        /\ FindToken(_load(tokens_json), TokenStepResult.temporary_id) # 0
        /\ ~TemporaryRecord.revoked
        /\ TemporaryRecord.hash = sha256(TokenStepResult.value)
        /\ \E k \in 1..Len(token_hashes.hashes) :
              token_hashes.hashes[k] = sha256(TokenStepResult.value)

\* C35: a temporary validation token is active and in token_hashes.json from
\* the token step that created it until the pipeline has run all its steps or
\* aborted; the only step of run_deploy that revokes it or rewrites
\* token_hashes.json after its creation is the finally block
C35_TemporaryTokenLivesToCleanup ==
    /\ []C35_ActiveWhilePipelineRuns
    /\ [][(HasTemporary /\ (tokens_json' # tokens_json \/ token_hashes' # token_hashes))
             => (pc = "finally" /\ pc' = "returned")]_vars

\* the smoke tests are about to run with a temporary token
C35_Witness ==
    /\ HasTemporary
    /\ pc = "run_steps"
    /\ call.pos <= call.last
    /\ steps[call.pos].fn = "curl_smoke_tests"
    /\ ~TemporaryRecord.revoked
    /\ Len(token_hashes.hashes) = 2

\* what the summary shows, and first_run beside a temporary credential
C36_SummaryShows ==
    InDeploy =>
        /\ summary.token # None =>
              /\ first_run
              /\ summary.printed
              /\ summary.token = TokenStepResult.value
              /\ TokenStepResult.temporary_id = NoId
        /\ HasTemporary =>
              /\ ~first_run
              /\ summary.token = None

\* C36: first_run is whether the store had no active token when the
\* deployment started, and stays so to its end; the summary displays a
\* plaintext only when first_run holds, and then the value of the token this
\* deployment created; when the token step returned a temporary credential
\* first_run is false and the summary displays no plaintext
C36_PlaintextShownOnFirstRunOnly ==
    /\ []C36_SummaryShows
    /\ [][(pc = "idle" /\ pc' = "run_steps") =>
             first_run' = (active_tokens(tokens_json) = <<>>)]_vars
    /\ [][(InDeploy /\ pc # "idle" /\ pc' # "idle") => first_run' = first_run]_vars

\* a hashed redeployment whose summary was printed while its temporary token
\* was in use
C36_Witness ==
    /\ HasTemporary
    /\ summary.printed
    /\ summary.token = None
    /\ ~first_run
    /\ outcome = "ok"

\* a first hashed deployment whose summary displayed the plaintext that no
\* file holds
C36_WitnessFirstRun ==
    /\ InDeploy
    /\ auth_mode = HASHED
    /\ first_run
    /\ summary.printed
    /\ summary.token = GenSecret(Len(_load(tokens_json)))

-----------------------------------------------------------------------------
(* Properties of the configuration assembly *)

Picked == assembly.op = "pick_free_bind_port"

\* port q is outside the avoid set of the last pick and its probe succeeds
Available(q) ==
    /\ q \notin assembly.args.avoid
    /\ <<assembly.args.host, q>> \in assembly.args.free

\* C24: pick_free_bind_port(host, P, avoid=A) returns the smallest port >= P
\* that is not in A and whose bind probe on host succeeds, hence P itself when
\* P is free and not avoided; it returns no port only when the range holds no
\* such port
C24_SmallestFreePort ==
    Picked =>
        LET P == assembly.args.preferred_port
            r == assembly.out.port
        IN  IF \E q \in Ports : q >= P /\ Available(q)
            THEN /\ assembly.out.returned
                 /\ r >= P
                 /\ Available(r)
                 /\ \A q \in P..(r - 1) : ~Available(q)
                 /\ Available(P) => r = P
            ELSE ~assembly.out.returned

\* a pick that passed over a free but avoided port and over a port in use
C24_Witness ==
    /\ Picked
    /\ assembly.out.returned
    /\ \E q \in assembly.args.preferred_port..(assembly.out.port - 1) :
          q \in assembly.args.avoid /\ <<assembly.args.host, q>> \in assembly.args.free
    /\ \E q \in assembly.args.preferred_port..(assembly.out.port - 1) :
          q \notin assembly.args.avoid /\ <<assembly.args.host, q>> \notin assembly.args.free

Tuned == assembly.op = "_auto_optimize_cfg"

-----------------------------------------------------------------------------
(* Properties of the command runner and of the health checks *)

\* C28: an interrupt that arrives while sh streams the command's output or
\* waits for its exit terminates the command's process group before it
\* propagates: no sh call ends by KeyboardInterrupt with the group still running
C28_InterruptKillsGroup ==
    shell.outcome = "KeyboardInterrupt" => shell.group # "running"

WaitHealthEnded == run.fn = "wait_health" /\ run.outcome # "none"

C29_Results ==
    /\ (run.fn = "wait_health" /\ run.outcome = "ok") =>
          /\ timer.answer = "200"
          /\ timer.begun < timer.deadline
          /\ timer.now <= timer.begun + ProbeTimeout
    /\ (run.fn = "wait_health" /\ run.outcome = "SystemExit") =>
          /\ timer.answer # "200"
          /\ timer.now >= timer.deadline
    /\ run.fn = "wait_health" => timer.now < timer.deadline + ProbeTimeout + 1

C29_WitnessExpired ==
    /\ run.fn = "wait_health"
    /\ run.outcome = "SystemExit"
    /\ timer.answer = "204"

SanityEnded == run.fn = "sanity_checks" /\ run.outcome # "none"

\* C30: whatever exit statuses its commands return, sanity_checks returns
\* normally after running all of them; it ends otherwise only by an interrupt
\* of an sh call, never by the fatal exit
C30_SanityChecksNeverFail ==
    SanityEnded =>
        /\ run.outcome \in {"ok", "KeyboardInterrupt"}
        /\ run.outcome = "KeyboardInterrupt" <=> shell.outcome = "KeyboardInterrupt"
        /\ run.outcome = "ok" => Len(run.rcs) = Len(run.cmds)

\* sanity_checks returned after four commands that all failed
C30_Witness ==
    /\ SanityEnded
    /\ run.outcome = "ok"
    /\ Len(run.rcs) = 4
    /\ \A i \in 1..4 : run.rcs[i] # 0

-----------------------------------------------------------------------------
(* Properties of the credential store *)

Range(s) == {s[i] : i \in 1..Len(s)}

Records == _load(tokens_json)

ActiveIds == {t.id : t \in Range(active_tokens(tokens_json))}

\* every string a file of the secrets directory holds
PersistedStrings ==
    UNION {{t.name, t.value, t.hash} : t \in Range(tokens_json.tokens)}
        \cup Range(api_keys.lines) \cup Range(token_hashes.hashes)

\* the plaintexts create_token can have been given or have generated
Plaintexts == ExplicitValues \cup {GenSecret(n) : n \in 1..(Len(Records) + 1)}

Completed(op) == last.op = op /\ last.outcome = "ok"

\* the records that are not revoked, in creation order
RECURSIVE ActiveRecords(_)
ActiveRecords(tokens) ==
    IF tokens = <<>> THEN <<>>
    ELSE IF Head(tokens).revoked THEN ActiveRecords(Tail(tokens))
    ELSE <<Head(tokens)>> \o ActiveRecords(Tail(tokens))

\* their secrets and their hashes, in that order
ActiveValues(tokens) ==
    [i \in 1..Len(ActiveRecords(tokens)) |-> ActiveRecords(tokens)[i].value]

ActiveHashes(tokens) ==
    [i \in 1..Len(ActiveRecords(tokens)) |-> ActiveRecords(tokens)[i].hash]

\* the derived artifact of the store's mode is the projection of tokens.json
ArtifactIsProjection ==
    IF auth_mode = HASHED
    THEN token_hashes = [exists |-> TRUE, hashes |-> ActiveHashes(Records)]
    ELSE api_keys = [exists |-> TRUE, lines |-> ActiveValues(Records)]

\* C2: in a hashed-mode store no persisted file (tokens.json, api_keys,
\* token_hashes.json) ever holds the plaintext of a token the store created;
\* the plaintext is carried by the record create_token returns, whose hash is
\* the one persisted.
C2_HashedNeverPersistsPlaintext ==
    auth_mode = HASHED =>
        /\ \A t \in Range(Records) : \A p \in Plaintexts :
              t.hash = sha256(p) => p \notin PersistedStrings
        /\ Completed("create") =>
              /\ last.ret[1].value = RawValue(last.value, last.id)
              /\ last.ret[1].value \notin PersistedStrings
              /\ Records[Len(Records)].hash = sha256(last.ret[1].value)

\* a hashed store that created a token from a supplied secret after a revocation
C2_Witness ==
    /\ auth_mode = HASHED
    /\ Completed("create")
    /\ last.value \in ExplicitValues
    /\ \E t \in Range(Records) : t.revoked

\* C7: a record that is revoked stays revoked, with the same revoked_at, under
\* every store call, and never shows up among the active tokens again.
C7_RevocationIsTerminal ==
    [][\A i \in 1..Len(Records) :
          Records[i].revoked =>
              /\ i <= Len(Records')
              /\ Records'[i].id = Records[i].id
              /\ Records'[i].revoked
              /\ Records'[i].revoked_at = Records[i].revoked_at
              /\ Records[i].id \notin ActiveIds']_vars

\* a revoked record on which revoke_token was called again
C7_Witness ==
    /\ last.op = "revoke"
    /\ last.outcome = "ValueError"
    /\ \E t \in Range(Records) : t.id = last.id /\ t.revoked

C9_NoRevokedSecretListed ==
    (Completed("create") \/ Completed("revoke")) =>
        /\ ArtifactIsProjection
        /\ \A t \in Range(Records) :
              t.revoked => /\ t.value \notin Range(api_keys.lines)
                           /\ t.hash \notin Range(token_hashes.hashes)

\* C9 amended: after a completed create_token or revoke_token the artifact of the
\* store's mode lists exactly the secrets (plaintext mode) or hashes (hashed mode)
\* of the active records, in creation order; a revoked record contributes no entry.
C9_ArtifactIsProjection ==
    (Completed("create") \/ Completed("revoke")) => ArtifactIsProjection

\* a completed mutation with two records, one revoked and one active
C9_Witness ==
    /\ Completed("create") \/ Completed("revoke")
    /\ \E t \in Range(Records) : t.revoked
    /\ \E t \in Range(Records) : ~t.revoked

\* C10: whenever tokens.json exists, the derived artifact of the store's mode
\* reflects the same record collection (no state has the one written and the
\* other stale).
C10_WritesAreAtomic ==
    tokens_json.exists => ArtifactIsProjection

\* the plaintext of the last create_token: the supplied one, else the generated one
UsedPlaintext ==
    IF last.value \in ExplicitValues THEN last.value ELSE GenSecret(last.id)

\* the record the last create_token persisted
Persisted == Records[Len(Records)]

\* C11: in hashed mode a completed create_token returns a record carrying the
\* plaintext (supplied or generated), the record it persisted in tokens.json has
\* hash = sha256(plaintext) and no value, and token_hashes.json lists that hash.
C11_HashedCreate ==
    (auth_mode = HASHED /\ Completed("create")) =>
        /\ last.ret[1].id = last.id
        /\ last.ret[1].value = UsedPlaintext
        /\ Persisted.id = last.id
        /\ Persisted.hash = sha256(last.ret[1].value)
        /\ Persisted.value = None
        /\ token_hashes.exists
        /\ token_hashes.hashes[Len(token_hashes.hashes)] = sha256(UsedPlaintext)

\* a hashed store whose second token was generated
C11_Witness ==
    /\ auth_mode = HASHED
    /\ Completed("create")
    /\ last.value = None
    /\ Len(Records) = 2
    /\ last.ret[1].value = GenSecret(2)

\* C12: in plaintext mode a completed create_token returns the record it
\* persisted, whose value is the supplied (or generated) plaintext, and api_keys
\* lists that plaintext.
C12_PlaintextCreate ==
    (auth_mode = PLAINTEXT /\ Completed("create")) =>
        /\ last.ret[1].value = UsedPlaintext
        /\ last.ret[1] = Persisted
        /\ Persisted.id = last.id
        /\ Persisted.value = UsedPlaintext
        /\ Persisted.hash = None
        /\ api_keys.exists
        /\ api_keys.lines[Len(api_keys.lines)] = UsedPlaintext

\* a plaintext store that persisted a supplied secret next to an earlier token
C12_Witness ==
    /\ auth_mode = PLAINTEXT
    /\ Completed("create")
    /\ last.value \in ExplicitValues
    /\ Len(Records) = 2
    /\ Persisted.value = last.value

\* the records of tokens.json carrying the identifier of the last call
Addressed == {t \in Range(Records) : t.id = last.id}

C14_BlankValueRejected ==
    (last.op = "create" /\ last.value \in {"", " "}) =>
        /\ last.outcome = "ValueError"
        /\ \A t \in Range(Records) : t.id # last.id

\* the positions of the records carrying the identifier of the call being made
Hit == {i \in 1..Len(Records) : Records[i].id = last'.id}

\* C15: revoke_token(id) raises KeyError when no record has the id and
\* ValueError when the record is already revoked; a revoke_token that raises
\* either leaves tokens.json, api_keys, token_hashes.json and the record's
\* revoked_at as they were.
C15_RevokeFailures ==
    [][last'.op = "revoke" =>
          /\ Hit = {} => last'.outcome = "KeyError"
          /\ \A i \in Hit :
                Records[i].revoked =>
                    /\ last'.outcome = "ValueError"
                    /\ Records'[i].revoked_at = Records[i].revoked_at
          /\ last'.outcome \in {"KeyError", "ValueError"} =>
                /\ Hit = {} \/ \E i \in Hit : Records[i].revoked
                /\ UNCHANGED <<tokens_json, api_keys, token_hashes>>]_vars

\* revoke_token of an unknown id on a store that holds a revoked and an active record
C15_Witness ==
    /\ last.op = "revoke"
    /\ last.outcome = "KeyError"
    /\ \E t \in Range(Records) : t.revoked
    /\ \E t \in Range(Records) : ~t.revoked

\* C16: every record of tokens.json has exactly one of value / hash set, value
\* in a plaintext store and hash in a hashed one, and has revoked_at set exactly
\* when revoked is true.
C16_RecordWellFormed ==
    \A t \in Range(Records) :
        /\ (t.value # None) # (t.hash # None)
        /\ auth_mode = PLAINTEXT => t.value # None
        /\ auth_mode = HASHED => t.hash # None
        /\ t.revoked <=> t.revoked_at # NoTime

\* a hashed store whose first record was revoked before the second was created
C16_Witness ==
    /\ auth_mode = HASHED
    /\ Len(Records) = 2
    /\ Records[1].revoked
    /\ Records[2].created_at > Records[1].revoked_at
    /\ ~Records[2].revoked

\* what revoke_token never changes of a record
Fixed(t) == <<t.id, t.name, t.created_at, t.value, t.hash>>

\* C17: no call deletes or reorders a record; a completed create_token appends
\* exactly one record at the end; revoke_token changes only revoked / revoked_at
\* of the record it addresses; list_tokens returns every record in creation
\* order and active_tokens the non-revoked ones in the same order.
C17_AppendOnly ==
    [][/\ Len(Records') \in {Len(Records), Len(Records) + 1}
       /\ \A i \in 1..Len(Records) : Fixed(Records'[i]) = Fixed(Records[i])
       /\ (last'.op = "create" /\ last'.outcome = "ok") =>
             /\ Len(Records') = Len(Records) + 1
             /\ SubSeq(Records', 1, Len(Records)) = Records
             /\ Records'[Len(Records')].id = last'.id
       /\ last'.op = "revoke" =>
             /\ Len(Records') = Len(Records)
             /\ \A i \in 1..Len(Records) :
                   Records[i].id # last'.id => Records'[i] = Records[i]
       /\ last'.op \in {"show", "list", "active"} => Records' = Records
       /\ last'.op = "list" => last'.ret = Records
       /\ last'.op = "active" => last'.ret = ActiveRecords(Records)]_vars

\* active_tokens on a store whose first record is revoked and whose second is not
C17_Witness ==
    /\ last.op = "active"
    /\ Len(Records) = 2
    /\ Records[1].revoked
    /\ last.ret = <<Records[2]>>

\* C18: no two records of tokens.json share an id, so the identifier of a
\* revoke_token or show_token call addresses at most one record.
C18_IdsUnique ==
    /\ \A i, j \in 1..Len(Records) : Records[i].id = Records[j].id => i = j
    /\ last.op \in {"revoke", "show"} => Cardinality(Addressed) <= 1

====
